---- MODULE Spec2Model ----
(***************************************************************************)
(* A model of opennb (src/opennb.py): the resolution of a notebook         *)
(* reference to a raw-content URL, the default-branch lookup, and the      *)
(* download-and-open orchestration.                                        *)
(*                                                                         *)
(* Python strings are sequences of one-character strings, so that split,   *)
(* strip, startswith and endswith are computed character by character.     *)
(* An optional value (T | None) is a sequence of length 0 (None) or 1.     *)
(* The characters of the references are those of Tokens and Heads: letters,*)
(* '/', '@', '#', '.', ':'.  '?' is handled by UrlPath but never drawn;    *)
(* ';', whitespace and brackets, which urlparse treats specially, are not. *)
(***************************************************************************)
EXTENDS Integers, Sequences, FiniteSets, TLC

\* ------------------------------------------------------------------------
\* Bounds of the model
\* ------------------------------------------------------------------------

\* the longest tail, in tokens, of a reference handed to
\* _convert_github_path_to_raw_url
MaxTokens == 5

\* the longest tail, in tokens, of a reference handed to
\* open_notebook_from_url
MaxOpenTokens == 4

\* ------------------------------------------------------------------------
\* String literals of the program
\* ------------------------------------------------------------------------

RAW == <<"h", "t", "t", "p", "s", ":", "/", "/", "r", "a", "w", ".", "g", "i", "t", "h", "u", "b", "u", "s", "e", "r", "c", "o", "n", "t", "e", "n", "t", ".", "c", "o", "m", "/">>

API == <<"h", "t", "t", "p", "s", ":", "/", "/", "a", "p", "i", ".", "g", "i", "t", "h", "u", "b", ".", "c", "o", "m", "/", "r", "e", "p", "o", "s", "/">>

HTTP == <<"h", "t", "t", "p", ":", "/", "/">>

HTTPS == <<"h", "t", "t", "p", "s", ":", "/", "/">>

IPYNB == <<".", "i", "p", "y", "n", "b">>

JUPYTER == <<"j", "u", "p", "y", "t", "e", "r">>

NOTEBOOK == <<"n", "o", "t", "e", "b", "o", "o", "k">>

\* ------------------------------------------------------------------------
\* Optional values, exceptions and outcomes of a call
\* ------------------------------------------------------------------------

None == <<>>

Some(x) == <<x>>

Exc(t, m, c, a) == [type |-> t, msg |-> m, code |-> c, about |-> a]

NoExc == Exc("none", "", 0, <<>>)

FormatError == Exc("ValueError", "Repository path must be in format: owner/repository", 0, <<>>)

NoFilePathError == Exc("ValueError", "No file path specified", 0, <<>>)

SuffixError == Exc("ValueError", "Path must end with .ipynb", 0, <<>>)

UrlSuffixError == Exc("ValueError", "URL must point to a Jupyter notebook (.ipynb file)", 0, <<>>)

NotFoundError(o, r) == Exc("ValueError", "Repository {owner}/{repo} not found", 0, o \o <<"/">> \o r)

HTTPError(code) == Exc("HTTPError", "", code, <<>>)

URLError == Exc("URLError", "", 0, <<>>)

CalledProcessError(code) == Exc("CalledProcessError", "", code, <<>>)

Pending == [kind |-> "none", value |-> <<>>, exc |-> NoExc]

Return(v) == [kind |-> "return", value |-> v, exc |-> NoExc]

Raise(e) == [kind |-> "raise", value |-> <<>>, exc |-> e]

\* ------------------------------------------------------------------------
\* Python's string methods
\* ------------------------------------------------------------------------

\* c in s
Contains(s, c) == \E i \in 1..Len(s) : s[i] = c

\* s.find(c) + 1: the position of the first c, 0 when there is none
RECURSIVE FindFrom(_, _, _)
FindFrom(s, c, i) ==
    IF i > Len(s) THEN 0
    ELSE IF s[i] = c THEN i
    ELSE FindFrom(s, c, i + 1)

Find(s, c) == FindFrom(s, c, 1)

\* s.rfind(c) + 1: the position of the last c, 0 when there is none
RECURSIVE RFindFrom(_, _, _)
RFindFrom(s, c, i) ==
    IF i < 1 THEN 0
    ELSE IF s[i] = c THEN i
    ELSE RFindFrom(s, c, i - 1)

\* s.rsplit(c, 1): a split at the last occurrence instead of the first
RSplit1(s, c) ==
    LET i == RFindFrom(s, c, Len(s)) IN
    IF i = 0 THEN <<s>>
    ELSE <<SubSeq(s, 1, i - 1), SubSeq(s, i + 1, Len(s))>>

\* s.split(c, 1)
Split1(s, c) ==
    LET i == Find(s, c) IN
    IF i = 0 THEN <<s>>
    ELSE <<SubSeq(s, 1, i - 1), SubSeq(s, i + 1, Len(s))>>

\* s.split(c)
RECURSIVE SplitAll(_, _)
SplitAll(s, c) ==
    LET i == Find(s, c) IN
    IF i = 0 THEN <<s>>
    ELSE <<SubSeq(s, 1, i - 1)>> \o SplitAll(SubSeq(s, i + 1, Len(s)), c)

RECURSIVE LStrip(_, _)
LStrip(s, c) ==
    IF Len(s) > 0 /\ s[1] = c THEN LStrip(Tail(s), c) ELSE s

RECURSIVE RStrip(_, _)
RStrip(s, c) ==
    IF Len(s) > 0 /\ s[Len(s)] = c THEN RStrip(SubSeq(s, 1, Len(s) - 1), c) ELSE s

\* s.strip(c)
Strip(s, c) == RStrip(LStrip(s, c), c)

\* s.startswith(p)
StartsWith(s, p) == Len(s) >= Len(p) /\ SubSeq(s, 1, Len(p)) = p

\* p in s (a substring test)
ContainsStr(s, p) == \E i \in 1..(Len(s) - Len(p) + 1) : SubSeq(s, i, i + Len(p) - 1) = p

\* s.endswith(p)
EndsWith(s, p) == Len(s) >= Len(p) /\ SubSeq(s, Len(s) - Len(p) + 1, Len(s)) = p

\* ------------------------------------------------------------------------
\* _convert_github_path_to_raw_url, in the three parts that the call of
\* _get_default_branch separates
\* ------------------------------------------------------------------------

\* a test that only rejects too few parts
OwnerRepoAtLeastTwo(repo_parts) == Len(repo_parts) >= 2

\* len(repo_parts) != 2 raises the format error
OwnerRepoOk(repo_parts) == Len(repo_parts) = 2

\* the split on '#' and '@' and the owner/repository parts
ParsePath(path) ==
    LET parts == Split1(path, "#")
        repo_part == parts[1]
        fp == IF Len(parts) > 1 THEN Some(parts[2]) ELSE None
        at == Contains(repo_part, "@")
        sp == Split1(repo_part, "@")
        repo_info == IF at THEN sp[1] ELSE repo_part
        br == IF at THEN Some(sp[2]) ELSE None
    IN  [repo_parts |-> SplitAll(Strip(repo_info, "/"), "/"),
         branch |-> br,
         file_path |-> fp]

\* the f-string of the return statement
RawUrl(o, r, b, f) == RAW \o o \o <<"/">> \o r \o <<"/">> \o b \o <<"/">> \o f

\* a tail that takes a missing file path to be the whole branch string
ConvertTailNoCheck(o, r, b, fp) ==
    LET f == IF fp = None THEN b ELSE fp[1]
    IN  IF ~EndsWith(f, IPYNB)
        THEN [branch |-> Some(b), file_path |-> Some(f), out |-> Raise(SuffixError)]
        ELSE [branch |-> Some(b), file_path |-> Some(f), out |-> Return(RawUrl(o, r, b, f))]

\* the file path, the suffix check and the URL, once the branch b is known
ConvertTail(o, r, b, fp) ==
    IF fp = None /\ ~Contains(b, "/")
    THEN [branch |-> Some(b), file_path |-> None, out |-> Raise(NoFilePathError)]
    ELSE LET sp == Split1(b, "/")
             b2 == IF fp = None THEN sp[1] ELSE b
             f  == IF fp = None THEN sp[2] ELSE fp[1]
         IN  IF ~EndsWith(f, IPYNB)
             THEN [branch |-> Some(b2), file_path |-> Some(f), out |-> Raise(SuffixError)]
             ELSE [branch |-> Some(b2), file_path |-> Some(f),
                   out |-> Return(RawUrl(o, r, b2, f))]

\* the function up to the call of _get_default_branch: out is Pending when
\* the default branch has to be looked up
ConvertStart(path) ==
    LET h == ParsePath(path) IN
    IF ~OwnerRepoOk(h.repo_parts)
    THEN [owner |-> <<>>, repo |-> <<>>, branch |-> h.branch, file_path |-> h.file_path,
          out |-> Raise(FormatError)]
    ELSE LET o == h.repo_parts[1]
             r == h.repo_parts[2]
         IN  IF h.branch = None
             THEN [owner |-> o, repo |-> r, branch |-> None, file_path |-> h.file_path,
                   out |-> Pending]
             ELSE LET t == ConvertTail(o, r, h.branch[1], h.file_path)
                  IN  [owner |-> o, repo |-> r, branch |-> t.branch,
                       file_path |-> t.file_path, out |-> t.out]

\* the function from the return of _get_default_branch, whose outcome is lk
ConvertResume(o, r, fp, lk) ==
    IF lk.kind = "raise"
    THEN [branch |-> None, file_path |-> fp, out |-> lk]
    ELSE ConvertTail(o, r, lk.value, fp)

\* ------------------------------------------------------------------------
\* _get_default_branch
\* ------------------------------------------------------------------------

\* the URL of the metadata request
ApiUrl(o, r) == API \o o \o <<"/">> \o r

\* what a blocking primitive answers: urlopen a JSON body with default_branch,
\* urlretrieve a written file, subprocess.run an exit code (Ok), or an error
Ok(code, body) == [code |-> code, body |-> body, exc |-> NoExc]

Failed(e) == [code |-> e.code, body |-> <<>>, exc |-> e]

\* a handler that reports every HTTP error as "not found"
GetDefaultBranchAll404(o, r, resp) ==
    IF resp.exc = NoExc THEN Return(resp.body)
    ELSE IF resp.exc.type = "HTTPError" THEN Raise(NotFoundError(o, r))
    ELSE Raise(resp.exc)

\* the outcome of _get_default_branch(o, r) when urlopen answers resp
GetDefaultBranch(o, r, resp) ==
    IF resp.exc = NoExc THEN Return(resp.body)
    ELSE IF resp.exc.type = "HTTPError" /\ resp.exc.code = 404
         THEN Raise(NotFoundError(o, r))
    ELSE Raise(resp.exc)

\* ------------------------------------------------------------------------
\* open_notebook_from_url: the pure parts
\* ------------------------------------------------------------------------

\* the end of the network location: the first of '/', '?', '#' from i on
RECURSIVE NetlocEnd(_, _)
NetlocEnd(s, i) ==
    IF i > Len(s) THEN Len(s) + 1
    ELSE IF s[i] \in {"/", "?", "#"} THEN i
    ELSE NetlocEnd(s, i + 1)

\* urlparse(u).path for a URL with a scheme
UrlPath(u) ==
    LET afterScheme == SubSeq(u, Find(u, ":") + 1, Len(u))
        afterNetloc == IF StartsWith(afterScheme, <<"/", "/">>)
                       THEN SubSeq(afterScheme, NetlocEnd(afterScheme, 3), Len(afterScheme))
                       ELSE afterScheme
        noFragment == Split1(afterNetloc, "#")[1]
    IN  Split1(noFragment, "?")[1]

\* Path(p).name: the last component that is neither empty nor '.'
PathName(p) ==
    LET comps == SelectSeq(SplitAll(p, "/"), LAMBDA c : c # <<>> /\ c # <<".">>)
    IN  IF comps = <<>> THEN <<>> ELSE comps[Len(comps)]

\* Path.cwd()
Cwd == <<"/", "w">>

\* output_dir / filename, as a string
OutputPath(dir, filename) ==
    (IF dir = None THEN Cwd ELSE dir[1]) \o <<"/">> \o filename

\* a command that lists the arguments in reverse
CmdReversed(path, args) ==
    LET a == IF args = None THEN <<>> ELSE args[1]
    IN  <<JUPYTER, NOTEBOOK, path>> \o [i \in 1..Len(a) |-> a[Len(a) + 1 - i]]

\* the command of the viewer
Cmd(path, args) ==
    <<JUPYTER, NOTEBOOK, path>> \o (IF args = None THEN <<>> ELSE args[1])

\* url.startswith(("http://", "https://"))
IsUrl(u) == StartsWith(u, HTTP) \/ StartsWith(u, HTTPS)

\* a check that accepts every filename
FilenameAny(filename) == TRUE

\* filename.endswith(".ipynb")
FilenameOk(filename) == EndsWith(filename, IPYNB)

\* ------------------------------------------------------------------------
\* The inputs
\* ------------------------------------------------------------------------

PORT == <<"-", "-", "p", "o", "r", "t">>

P8888 == <<"8", "8", "8", "8">>

\* the pieces the tail of a reference is made of
Tokens == {<<"b">>, <<"/">>, <<"@">>, <<"#">>, IPYNB}

\* the strings made of at most n tokens
RECURSIVE TokenStrings(_)
TokenStrings(n) ==
    IF n = 0 THEN {<<>>}
    ELSE LET shorter == TokenStrings(n - 1)
         IN  shorter \cup {s \o t : s \in shorter, t \in Tokens}

\* how a shorthand reference starts: nothing, owner/repo, /owner/repo/
Heads == {<<>>, <<"o", "/", "r">>, <<"/", "o", "/", "r", "/">>}

\* how an absolute URL starts
UrlHeads == {HTTP, HTTPS}

ConvertRefs == {h \o t : h \in Heads, t \in TokenStrings(MaxTokens)}

OpenRefs == {h \o t : h \in Heads \cup UrlHeads, t \in TokenStrings(MaxOpenTokens)}

\* owners and repositories of a direct call of _get_default_branch
Names == {<<"o">>, <<"r">>}

\* the default branches the metadata API may report
DefaultBranches == {<<"m">>, <<"d", "/", "b">>, <<"d", "/", "n">> \o IPYNB}

OutputDirs == {None, Some(<<"/", "d">>)}

JupyterArgs == {None, Some(<<>>), Some(<<PORT, P8888>>)}

\* the statuses of a failed metadata request
ErrorCodes == {404, 500}

\* the exit codes of the viewer
ExitCodes == {0, 1}

\* ------------------------------------------------------------------------
\* The state
\* ------------------------------------------------------------------------

VARIABLES
    pc,            \* "idle", "urlopen", "urlretrieve", "run" (a call is
                   \* waiting for that primitive) or "done"
    entry,         \* the function that was called
    arg,           \* its path / url argument
    output_dir,    \* open_notebook_from_url's arguments
    jupyter_args,
    owner,         \* locals of _convert_github_path_to_raw_url and
    repo,          \* _get_default_branch
    branch,
    file_path,
    lookup,        \* the outcome of _get_default_branch
    url,           \* locals of open_notebook_from_url
    output_path,
    trace,         \* the calls of urlopen, urlretrieve and subprocess.run
    answers,       \* what each of them answered, in the same order
    disk,          \* the files written
    result         \* the outcome of the call

vars == <<pc, entry, arg, output_dir, jupyter_args, owner, repo, branch, file_path,
          lookup, url, output_path, trace, answers, disk, result>>

Ev(op, target, dest, cmd) == [op |-> op, target |-> target, dest |-> dest, cmd |-> cmd]

Init ==
    /\ pc = "idle"
    /\ entry = "none"
    /\ arg = <<>>
    /\ output_dir = None
    /\ jupyter_args = None
    /\ owner = <<>>
    /\ repo = <<>>
    /\ branch = None
    /\ file_path = None
    /\ lookup = Pending
    /\ url = <<>>
    /\ output_path = <<>>
    /\ trace = <<>>
    /\ answers = <<>>
    /\ disk = {}
    /\ result = Pending

\* ------------------------------------------------------------------------
\* The calls
\* ------------------------------------------------------------------------

\* _get_default_branch(o, r), up to urlopen
CallGetDefaultBranch(o, r) ==
    /\ pc = "idle"
    /\ pc' = "urlopen"
    /\ entry' = "_get_default_branch"
    /\ owner' = o
    /\ repo' = r
    /\ trace' = Append(trace, Ev("urlopen", ApiUrl(o, r), <<>>, <<>>))
    /\ UNCHANGED <<arg, output_dir, jupyter_args, branch, file_path, lookup, url,
                   output_path, answers, disk, result>>

\* _convert_github_path_to_raw_url(path), up to its return or to urlopen
CallConvert(path) ==
    /\ pc = "idle"
    /\ entry' = "_convert_github_path_to_raw_url"
    /\ arg' = path
    /\ LET c == ConvertStart(path) IN
        /\ owner' = c.owner
        /\ repo' = c.repo
        /\ branch' = c.branch
        /\ file_path' = c.file_path
        /\ result' = c.out
        /\ IF c.out = Pending
           THEN /\ pc' = "urlopen"
                /\ trace' = Append(trace, Ev("urlopen", ApiUrl(c.owner, c.repo), <<>>, <<>>))
           ELSE /\ pc' = "done"
                /\ trace' = trace
    /\ UNCHANGED <<output_dir, jupyter_args, lookup, url, output_path, answers, disk>>

\* open_notebook_from_url from the resolved URL u to urlretrieve
Fetch(u, d) ==
    /\ url' = u
    /\ LET filename == PathName(UrlPath(u)) IN
        IF ~FilenameOk(filename)
        THEN /\ pc' = "done"
             /\ result' = Raise(UrlSuffixError)
             /\ output_path' = <<>>
             /\ trace' = trace
        ELSE /\ pc' = "urlretrieve"
             /\ result' = Pending
             /\ output_path' = OutputPath(d, filename)
             /\ trace' = Append(trace, Ev("urlretrieve", u, OutputPath(d, filename), <<>>))

\* open_notebook_from_url(u, d, a), up to its first blocking call or its end
CallOpen(u, d, a) ==
    /\ pc = "idle"
    /\ entry' = "open_notebook_from_url"
    /\ arg' = u
    /\ output_dir' = d
    /\ jupyter_args' = a
    /\ IF IsUrl(u)
       THEN /\ Fetch(u, d)
            /\ UNCHANGED <<owner, repo, branch, file_path>>
       ELSE LET c == ConvertStart(u) IN
            /\ owner' = c.owner
            /\ repo' = c.repo
            /\ branch' = c.branch
            /\ file_path' = c.file_path
            /\ IF c.out.kind = "return"
               THEN Fetch(c.out.value, d)
               ELSE /\ url' = url
                    /\ output_path' = output_path
                    /\ result' = c.out
                    /\ IF c.out = Pending
                       THEN /\ pc' = "urlopen"
                            /\ trace' = Append(trace, Ev("urlopen", ApiUrl(c.owner, c.repo),
                                                         <<>>, <<>>))
                       ELSE /\ pc' = "done"
                            /\ trace' = trace
    /\ UNCHANGED <<lookup, answers, disk>>

\* ------------------------------------------------------------------------
\* The returns of the blocking primitives
\* ------------------------------------------------------------------------

\* urlopen answers resp: the rest of _get_default_branch and of its caller
UrlopenReturns(resp) ==
    /\ pc = "urlopen"
    /\ answers' = Append(answers, resp)
    /\ LET lk == GetDefaultBranch(owner, repo, resp) IN
        /\ lookup' = lk
        /\ IF entry = "_get_default_branch"
           THEN /\ pc' = "done"
                /\ result' = lk
                /\ UNCHANGED <<branch, file_path, url, output_path, trace>>
           ELSE LET t == ConvertResume(owner, repo, file_path, lk) IN
                /\ branch' = t.branch
                /\ file_path' = t.file_path
                /\ IF entry = "open_notebook_from_url" /\ t.out.kind = "return"
                   THEN Fetch(t.out.value, output_dir)
                   ELSE /\ pc' = "done"
                        /\ result' = t.out
                        /\ UNCHANGED <<url, output_path, trace>>
    /\ UNCHANGED <<entry, arg, output_dir, jupyter_args, owner, repo, disk>>

\* the metadata request succeeds with default branch b
UrlopenOk(b) == UrlopenReturns(Ok(200, b))

\* the metadata request fails with an HTTP status
UrlopenHTTPError(code) == UrlopenReturns(Failed(HTTPError(code)))

\* the metadata request fails below HTTP
UrlopenURLError == UrlopenReturns(Failed(URLError))

\* urlretrieve has written the file: the command is built and the viewer run
UrlretrieveOk ==
    /\ pc = "urlretrieve"
    /\ answers' = Append(answers, Ok(200, <<>>))
    /\ disk' = disk \cup {output_path}
    /\ pc' = "run"
    /\ trace' = Append(trace, Ev("run", <<>>, <<>>, Cmd(output_path, jupyter_args)))
    /\ UNCHANGED <<entry, arg, output_dir, jupyter_args, owner, repo, branch, file_path,
                   lookup, url, output_path, result>>

\* urlretrieve raises e, before or after it has created the file
UrlretrieveFails(e, partial) ==
    /\ pc = "urlretrieve"
    /\ answers' = Append(answers, Failed(e))
    /\ disk' = IF partial THEN disk \cup {output_path} ELSE disk
    /\ pc' = "done"
    /\ result' = Raise(e)
    /\ UNCHANGED <<entry, arg, output_dir, jupyter_args, owner, repo, branch, file_path,
                   lookup, url, output_path, trace>>

\* the viewer exits with code: check=True turns a non-zero code into an error
RunExits(code) ==
    /\ pc = "run"
    /\ answers' = Append(answers, Ok(code, <<>>))
    /\ pc' = "done"
    /\ result' = IF code = 0 THEN Return(<<>>) ELSE Raise(CalledProcessError(code))
    /\ UNCHANGED <<entry, arg, output_dir, jupyter_args, owner, repo, branch, file_path,
                   lookup, url, output_path, trace, disk>>

Next ==
    \/ pc = "idle" /\ \E o \in Names, r \in Names : CallGetDefaultBranch(o, r)
    \/ pc = "idle" /\ \E path \in ConvertRefs : CallConvert(path)
    \/ pc = "idle" /\ \E u \in OpenRefs, d \in OutputDirs, a \in JupyterArgs : CallOpen(u, d, a)
    \/ \E b \in DefaultBranches : UrlopenOk(b)
    \/ \E code \in ErrorCodes : UrlopenHTTPError(code)
    \/ UrlopenURLError
    \/ UrlretrieveOk
    \/ \E e \in {URLError, HTTPError(404)}, partial \in BOOLEAN : UrlretrieveFails(e, partial)
    \/ \E code \in ExitCodes : RunExits(code)

Spec == Init /\ [][Next]_vars

\* ------------------------------------------------------------------------
\* Vocabulary of the properties.  These say what a reference looks like by
\* positions in the string, without the program's split and strip.
\* ------------------------------------------------------------------------

Min(S) == CHOOSE x \in S : \A y \in S : x <= y

Max(S) == CHOOSE x \in S : \A y \in S : x >= y

\* where the characters of cs stand in s
Positions(s, cs) == {i \in 1..Len(s) : s[i] \in cs}

HasSuffix(s, p) == \E k \in 0..Len(s) : SubSeq(s, 1, k) \o p = s

HasPrefix(s, p) == \E k \in 0..Len(s) : p \o SubSeq(s, k + 1, Len(s)) = s

\* s without its leading and trailing '/'
Trimmed(s) ==
    LET keep == {i \in 1..Len(s) : s[i] # "/"}
    IN  IF keep = {} THEN <<>> ELSE SubSeq(s, Min(keep), Max(keep))

\* s is x/y with x and y non-empty and free of '/'
TwoComponents(s) ==
    /\ Cardinality(Positions(s, {"/"})) = 1
    /\ s[1] # "/"
    /\ s[Len(s)] # "/"

OwnerIn(s) == SubSeq(s, 1, Min(Positions(s, {"/"})) - 1)

RepoIn(s) == SubSeq(s, Min(Positions(s, {"/"})) + 1, Len(s))

\* the reference up to its first '@' or '#'
RepoInfoOf(ref) ==
    LET marks == Positions(ref, {"@", "#"})
    IN  IF marks = {} THEN ref ELSE SubSeq(ref, 1, Min(marks) - 1)

NoMarks(ref) == Positions(ref, {"@", "#"}) = {}

\* ref is <repo info>@<branch>#<path>: an '@' stands before the first '#'
AtHashForm(ref) ==
    /\ Positions(ref, {"#"}) # {}
    /\ Positions(ref, {"@"}) # {}
    /\ Min(Positions(ref, {"@"})) < Min(Positions(ref, {"#"}))

BranchOfAtHash(ref) ==
    SubSeq(ref, Min(Positions(ref, {"@"})) + 1, Min(Positions(ref, {"#"})) - 1)

PathOfAtHash(ref) == SubSeq(ref, Min(Positions(ref, {"#"})) + 1, Len(ref))

\* ref is <repo info>@<branch> and has no '#'
AtOnlyForm(ref) == Positions(ref, {"#"}) = {} /\ Positions(ref, {"@"}) # {}

BranchOfAtOnly(ref) == SubSeq(ref, Min(Positions(ref, {"@"})) + 1, Len(ref))

\* the last non-empty '/'-separated piece of the path of the URL u, the
\* path running from the first '/' behind "://host" to the first '#' or '?'
LastSegment(u) ==
    LET cuts      == Positions(u, {"#", "?"})
        last      == IF cuts = {} THEN Len(u) ELSE Min(cuts) - 1
        hostStart == Min(Positions(u, {":"})) + 3
        slashes   == {i \in hostStart..last : u[i] = "/"}
    IN  IF slashes = {} THEN <<>>
        ELSE LET body == {i \in Min(slashes)..last : u[i] # "/"}
             IN  IF body = {} THEN <<>>
                 ELSE SubSeq(u, Max({i \in slashes : i < Max(body)}) + 1, Max(body))

\* how often the primitive op was called
Count(op) == Cardinality({i \in DOMAIN trace : trace[i].op = op})

\* the position of a primitive in the fixed order of the orchestrator
Rank(op) == CASE op = "urlopen" -> 1 [] op = "urlretrieve" -> 2 [] op = "run" -> 3

\* a call of _convert_github_path_to_raw_url has ended
Converted == pc = "done" /\ entry = "_convert_github_path_to_raw_url"

Opened == entry = "open_notebook_from_url"

\* ------------------------------------------------------------------------
\* The properties
\* ------------------------------------------------------------------------

\* C1: a reference owner/repo/<path>.ipynb without '@' and '#' makes the
\* resolver look the default branch up exactly once, for that owner and
\* repository, and return RAW owner/repo/<default branch>/<path>.ipynb.
C1_DefaultBranchShorthand ==
    (/\ Converted
     /\ NoMarks(arg)
     /\ Cardinality(Positions(arg, {"/"})) >= 2)
    => LET i == Min(Positions(arg, {"/"}))
           j == Min(Positions(arg, {"/"}) \ {i})
           o == SubSeq(arg, 1, i - 1)
           r == SubSeq(arg, i + 1, j - 1)
           p == SubSeq(arg, j + 1, Len(arg))
       IN  (o # <<>> /\ r # <<>> /\ HasSuffix(p, IPYNB))
           => /\ Count("urlopen") = 1
              /\ trace[1].target = API \o o \o <<"/">> \o r
              /\ lookup.kind = "return"
                 => result = Return(RAW \o o \o <<"/">> \o r \o <<"/">> \o lookup.value
                                    \o <<"/">> \o p)

\* C2: owner/repo@<branch>#<path> with <path> ending in .ipynb resolves to
\* RAW owner/repo/<branch>/<path>, <branch> being the text between the first
\* '@' and the first '#' and <path> the text behind the first '#', whatever
\* '/' they contain, and the default branch is never looked up.
C2_ExplicitBranchAndPath ==
    (/\ Converted
     /\ AtHashForm(arg)
     /\ TwoComponents(Trimmed(RepoInfoOf(arg)))
     /\ HasSuffix(PathOfAtHash(arg), IPYNB))
    => /\ result = Return(RAW \o OwnerIn(Trimmed(RepoInfoOf(arg))) \o <<"/">>
                          \o RepoIn(Trimmed(RepoInfoOf(arg))) \o <<"/">>
                          \o BranchOfAtHash(arg) \o <<"/">> \o PathOfAtHash(arg))
       /\ trace = <<>>

\* C2 happens: a resolved reference whose branch and path both hold a '/'
C2_Witness ==
    /\ Converted
    /\ AtHashForm(arg)
    /\ TwoComponents(RepoInfoOf(arg))
    /\ Positions(BranchOfAtHash(arg), {"/"}) # {}
    /\ Positions(PathOfAtHash(arg), {"/"}) # {}
    /\ result.kind = "return"

\* C3: the bare reference owner/repo fails with the owner/repository format
\* error, whatever the lookup answers, and never yields a URL.
C3_OwnerRepoOnly ==
    (Converted /\ NoMarks(arg) /\ TwoComponents(arg))
    => result = Raise(FormatError)

C6_SuffixChecked ==
    Converted
    => /\ result.kind = "return"
          => /\ branch # None /\ file_path # None
             /\ HasSuffix(file_path[1], IPYNB)
             /\ HasSuffix(result.value, IPYNB)
       /\ (/\ result # Raise(FormatError)
           /\ branch # None /\ file_path # None
           /\ ~HasSuffix(file_path[1], IPYNB))
          => result = Raise(SuffixError)
       /\ (/\ AtHashForm(arg)
           /\ TwoComponents(Trimmed(RepoInfoOf(arg)))
           /\ ~HasSuffix(PathOfAtHash(arg), IPYNB))
          => result = Raise(SuffixError)

\* C6 happens: owner/repo@branch#path whose path holds .ipynb, not at its end
C6_Witness ==
    /\ Converted
    /\ AtHashForm(arg)
    /\ TwoComponents(RepoInfoOf(arg))
    /\ \E k \in 1..Len(PathOfAtHash(arg)) :
          HasSuffix(SubSeq(PathOfAtHash(arg), 1, k), IPYNB) /\ k < Len(PathOfAtHash(arg))
    /\ result = Raise(SuffixError)

\* C7: _get_default_branch makes one metadata request and no second one;
\* it returns the default_branch of the answer, turns status 404 into the
\* not-found error naming owner/repo, and lets any other error through as
\* it is.
C7_LookupOutcome ==
    /\ Count("urlopen") <= 1
    /\ lookup.kind # "none"
       => /\ Count("urlopen") = 1
          /\ trace[1] = Ev("urlopen", API \o owner \o <<"/">> \o repo, <<>>, <<>>)
          /\ answers[1].exc = NoExc => lookup = Return(answers[1].body)
          /\ (answers[1].exc.type = "HTTPError" /\ answers[1].exc.code = 404)
             => /\ lookup.kind = "raise"
                /\ lookup.exc.type = "ValueError"
                /\ lookup.exc.msg = "Repository {owner}/{repo} not found"
                /\ lookup.exc.about = owner \o <<"/">> \o repo
          /\ (/\ answers[1].exc # NoExc
              /\ ~(answers[1].exc.type = "HTTPError" /\ answers[1].exc.code = 404))
             => lookup = Raise(answers[1].exc)
    /\ (entry = "_get_default_branch" /\ pc = "done") => result = lookup /\ Len(trace) = 1

\* C7 happens: a direct call answered with status 500 raises that error
C7_Witness ==
    /\ entry = "_get_default_branch"
    /\ pc = "done"
    /\ answers[1].exc.type = "HTTPError"
    /\ answers[1].exc.code = 500
    /\ result = Raise(answers[1].exc)

\* the directory the download goes to, and open_notebook_from_url's
\* pass-through arguments
TargetDir == IF output_dir = None THEN Cwd ELSE output_dir[1]

PassThrough == IF jupyter_args = None THEN <<>> ELSE jupyter_args[1]

\* C8: for a URL whose last path segment <filename> ends in .ipynb there is
\* exactly one download, to <output_dir or cwd>/<filename>; once download
\* and viewer have succeeded, the viewer has been run exactly once, after
\* the download, with jupyter notebook <that path> and then the
\* pass-through arguments in their order.
C8_DownloadThenView ==
    (Opened /\ url # <<>> /\ HasSuffix(LastSegment(url), IPYNB))
    => LET dest == TargetDir \o <<"/">> \o LastSegment(url) IN
       /\ Count("urlretrieve") = 1
       /\ \E i \in DOMAIN trace : trace[i] = Ev("urlretrieve", url, dest, <<>>)
       /\ IsUrl(arg) => url = arg
       /\ (pc = "done" /\ result.kind = "return")
          => /\ Count("run") = 1
             /\ trace[Len(trace) - 1].op = "urlretrieve"
             /\ trace[Len(trace)] =
                   Ev("run", <<>>, <<>>, <<JUPYTER, NOTEBOOK, dest>> \o PassThrough)
             /\ dest \in disk

\* C8 happens: a shorthand reference, resolved with a lookup, downloaded to
\* a given directory and opened with two pass-through arguments
C8_Witness ==
    /\ Opened
    /\ pc = "done"
    /\ result.kind = "return"
    /\ ~IsUrl(arg)
    /\ Count("urlopen") = 1
    /\ output_dir # None
    /\ Len(PassThrough) = 2
    /\ PassThrough[1] # PassThrough[2]

\* C9: the orchestrator resolves (only a reference that is no http(s) URL,
\* with at most one lookup), checks the suffix, downloads and runs the
\* viewer in this order, each at most once, and a failure stops the rest:
\* no download and no viewer after a resolver error or a filename without
\* .ipynb, no viewer after a failed download; a viewer exiting non-zero is
\* an error of the call and the downloaded file stays.
C9_OrderAndFailStop ==
    Opened
    => /\ \A i, j \in DOMAIN trace : i < j => Rank(trace[i].op) < Rank(trace[j].op)
       /\ Len(answers) = IF pc = "done" THEN Len(trace) ELSE Len(trace) - 1
       /\ (HasPrefix(arg, HTTP) \/ HasPrefix(arg, HTTPS))
          => Count("urlopen") = 0 /\ owner = <<>> /\ repo = <<>> /\ lookup = Pending
       /\ (Count("urlopen") = 1 /\ Len(answers) >= 1 /\ answers[1].exc # NoExc)
          => /\ pc = "done" /\ result.kind = "raise"
             /\ Len(trace) = 1 /\ disk = {}
       /\ (pc = "done" /\ result.kind = "raise" /\ result.exc.type = "ValueError")
          => Count("urlretrieve") = 0 /\ Count("run") = 0 /\ disk = {}
       /\ (url # <<>> /\ ~HasSuffix(LastSegment(url), IPYNB))
          => /\ pc = "done" /\ result = Raise(UrlSuffixError)
             /\ Count("urlretrieve") = 0 /\ Count("run") = 0
       /\ Count("urlretrieve") = 1
          => /\ url # <<>> /\ HasSuffix(LastSegment(url), IPYNB)
             /\ ~(HasPrefix(arg, HTTP) \/ HasPrefix(arg, HTTPS)) => HasPrefix(url, RAW)
       /\ (pc = "done" /\ trace # <<>> /\ trace[Len(trace)].op = "urlretrieve")
          => /\ answers[Len(answers)].exc # NoExc
             /\ result = Raise(answers[Len(answers)].exc)
             /\ Count("run") = 0
       /\ Count("run") = 1
          => /\ Count("urlretrieve") = 1
             /\ answers[Len(trace) - 1].exc = NoExc
             /\ output_path \in disk
       /\ (pc = "done" /\ Count("run") = 1)
          => result = IF answers[Len(answers)].code = 0 THEN Return(<<>>)
                      ELSE Raise(CalledProcessError(answers[Len(answers)].code))

\* C9 happens: after a lookup and a download the viewer exits non-zero, the
\* call fails and the file is on disk
C9_Witness ==
    /\ Opened
    /\ pc = "done"
    /\ Len(trace) = 3
    /\ answers[3].code # 0
    /\ result.exc.type = "CalledProcessError"
    /\ output_path \in disk

\* C10: a file path is taken out of the branch string exactly when the
\* reference has no '#', names a branch with '@' and that branch holds a
\* '/': the branch is then the text before its first '/', the file path the
\* text behind it; a branch that comes from the lookup is never split, and
\* with a '#' the branch stays whole.
C10_PathFromExplicitBranchOnly ==
    (Converted /\ result # Raise(FormatError))
    => LET hasHash  == Positions(arg, {"#"}) # {}
           explicit == IF hasHash THEN BranchOfAtHash(arg) ELSE BranchOfAtOnly(arg)
           derived  == ~hasHash /\ file_path # None
       IN  /\ derived <=> (AtOnlyForm(arg) /\ Positions(explicit, {"/"}) # {})
           /\ (AtOnlyForm(arg) /\ Positions(explicit, {"/"}) # {})
              => /\ branch = Some(SubSeq(explicit, 1, Min(Positions(explicit, {"/"})) - 1))
                 /\ file_path = Some(SubSeq(explicit, Min(Positions(explicit, {"/"})) + 1,
                                            Len(explicit)))
           /\ lookup.kind = "return" => branch = Some(lookup.value)
           /\ AtHashForm(arg) => branch = Some(explicit)

====
